---- MODULE Spec2Model ----
(***************************************************************************)
(* Model of src/app.py: the material cross-reference filter                *)
(* (analyze_material_data), the prompt composer (create_analysis_prompt    *)
(* and the general prompt of main), the analysis client (ask_llm_simple)   *)
(* and the Streamlit script main(), which is re-executed from top to       *)
(* bottom on every user interaction.                                       *)
(*                                                                         *)
(* Strings are sequences of one-character strings.  A DataFrame is the     *)
(* sequence of its rows; a row maps each column name to a cell.            *)
(***************************************************************************)
EXTENDS Integers, Sequences, FiniteSets, TLC

(* ------------------------------ bounds --------------------------------- *)

\* Longest search token drawn for a direct call of analyze_material_data.
MaxTokenLen == 2

\* Largest total number of rows over the three tables of a direct call.
MaxRows == 2

(* ------------------------------- data ---------------------------------- *)

Roles == {"sales", "production", "reservations"}

\* The order in which the code treats the three tables.
RoleOrder == <<"sales", "production", "reservations">>

\* Column names of the modelled spreadsheets (the code takes whatever the
\* file provides; every modelled file has these two).
Columns == {"MATNR", "KWMENG"}

\* A cell as pandas holds it: blank (NaN), a text or an integer.
NaN == [kind |-> "nan", s |-> <<>>, n |-> 0]

StrCell(s) == [kind |-> "str", s |-> s, n |-> 0]

IntCell(n) == [kind |-> "int", s |-> <<>>, n |-> n]

CellValues == {NaN, StrCell(<<"M", "1">>), IntCell(10)}

RowValues == [Columns -> CellValues]

\* Characters a search token is drawn from: letters, a digit and the two
\* regular-expression metacharacters "." and "(".
TokenChars == {"m", "n", "1", ".", "("}

TokensUpTo(k) == UNION {[1..len -> TokenChars] : len \in 0..k}

Tokens == TokensUpTo(MaxTokenLen)

\* An absent table (Python None) and a present one.
None == [isNone |-> TRUE, df |-> <<>>]

Some(df) == [isNone |-> FALSE, df |-> df]

Range(seq) == {seq[i] : i \in DOMAIN seq}

(* ------------------- str(), astype(str), str.contains ------------------- *)

DigitChar == <<"0", "1", "2", "3", "4", "5", "6", "7", "8", "9">>

\* str(n) of a non-negative integer: its decimal digits.
RECURSIVE IntToStr(_)
IntToStr(n) ==
    IF n < 10 THEN <<DigitChar[n + 1]>>
    ELSE IntToStr(n \div 10) \o <<DigitChar[(n % 10) + 1]>>

\* DataFrame.astype(str) on one cell: NaN becomes the text "nan".
AsTypeStr(cell) ==
    CASE cell.kind = "nan" -> <<"n", "a", "n">>
      [] cell.kind = "str" -> cell.s
      [] cell.kind = "int" -> IntToStr(cell.n)

\* Case folding of re.IGNORECASE (case=False) on the modelled characters.
Lower(c) ==
    CASE c = "M" -> "m"
      [] c = "N" -> "n"
      [] c = "A" -> "a"
      [] OTHER -> c

\* re.compile(pat): within TokenChars the only construct that fails to
\* compile is an opening parenthesis, which is never closed.
ReCompileFails(pat) == \E j \in DOMAIN pat : pat[j] = "("

\* One pattern character against one subject character: "." is the
\* wildcard, anything else is itself, compared without case.
ReCharMatches(p, c) == p = "." \/ Lower(p) = Lower(c)

\* regex.search(s) of a compiled pattern of literals and wildcards.
ReSearch(pat, s) ==
    \E off \in 0..Len(s) :
        /\ off + Len(pat) <= Len(s)
        /\ \A j \in 1..Len(pat) : ReCharMatches(pat[j], s[off + j])

\* Series.str.contains(pat, case=False, na=False) on one stringified cell;
\* regex=True is the default, so pat is a regular expression.
StrContains(s, pat) == ReSearch(pat, s)

\* .apply(lambda x: x.str.contains(...)).any(axis=1) for one row.
RowMatches(row, pat) ==
    \E c \in Columns : StrContains(AsTypeStr(row[c]), pat)

(* ------------------------ analyze_material_data ------------------------- *)

\* Whether filtering df raises: with at least one row the lambda runs on a
\* column and re.compile raises; on a frame without rows DataFrame.apply
\* never reaches str.contains.
FilterRaises(df, pat) == Len(df) > 0 /\ ReCompileFails(pat)

\* sales_df[mask]: the matching rows, in the table's order.
FilterRows(df, pat) == SelectSeq(df, LAMBDA row : RowMatches(row, pat))

\* {'count': len(data), 'data': data.to_dict('records') if len(data) > 0 else []}
EntryCountsAllRows(df, pat) ==
    LET data == FilterRows(df, pat)
    IN [count |-> Len(df), data |-> IF Len(data) > 0 THEN data ELSE <<>>]

FilterEntry(df, pat) ==
    LET data == FilterRows(df, pat)
    IN [count |-> Len(data), data |-> IF Len(data) > 0 THEN data ELSE <<>>]

\* The three "if ..._df is not None" blocks, in order.  The result is
\* either an exception (re.error out of the first non-empty provided table
\* when the token does not compile) or the analysis_data dict.
analyze_material_data(material_code, dfs) ==
    LET provided == {r \in Roles : ~dfs[r].isNone}
    IN  IF \E r \in provided : FilterRaises(dfs[r].df, material_code)
        THEN [raised |-> TRUE, value |-> <<>>]
        ELSE [raised |-> FALSE,
              value |-> [r \in provided |-> FilterEntry(dfs[r].df, material_code)]]

(* ----------------------- create_analysis_prompt ------------------------- *)

\* head(5): the sample is the first five rows of the table.
HeadRows == 5

Min(a, b) == IF a < b THEN a ELSE b

Head5(df) == SubSeq(df, 1, Min(HeadRows, Len(df)))

\* list(df.columns) of a modelled table.
ColumnList == <<"MATNR", "KWMENG">>

\* analysis_data.get(role, {}).get('count', 0) and .get('data', []).
GetCount(analysis_data, r) ==
    IF r \in DOMAIN analysis_data THEN analysis_data[r].count ELSE 0

GetData(analysis_data, r) ==
    IF r \in DOMAIN analysis_data THEN analysis_data[r].data ELSE <<>>

\* The variable parts of the material prompt, section by section in the
\* order sales, production, reservations; the glossary and the checklist
\* are fixed text.
create_analysis_prompt(material_code, analysis_data, dfs) ==
    [kind |-> "material",
     text |-> material_code,
     sections |-> [i \in 1..3 |->
        LET r == RoleOrder[i]
        IN [role |-> r,
            count |-> GetCount(analysis_data, r),
            columns |-> IF dfs[r].isNone THEN <<>> ELSE ColumnList,
            sample |-> IF dfs[r].isNone THEN <<>> ELSE Head5(dfs[r].df),
            filtered |-> GetData(analysis_data, r)]]]

\* The variable parts of the general prompt built in main: per table its
\* shape, columns and sample, then the user's question.
general_prompt(user_query, dfs) ==
    [kind |-> "general",
     text |-> user_query,
     sections |-> [i \in 1..3 |->
        LET r == RoleOrder[i]
        IN [role |-> r,
            shape |-> <<Len(dfs[r].df), Len(ColumnList)>>,
            columns |-> ColumnList,
            sample |-> Head5(dfs[r].df)]]]

(* ---------------------------- ask_llm_simple ---------------------------- *)

\* A text is the sequence of the fragments an f-string joins.
UnavailableMsg == <<"GenAI Hub is not available. Please check your configuration.">>

\* What the remote model does with one call: it replies, or the call fails
\* with an exception whose str() is text.
LlmOutcomes == {[ok |-> TRUE, text |-> "reply"],
                [ok |-> FALSE, text |-> "timeout"]}

NoCall == [ok |-> FALSE, text |-> "not called"]

\* The outcome of get_proxy_client at the top of the script.
ProxyClients == {"None", "client"}

ask_llm_simple_NoTry(prompt, proxy_client, outcome) ==
    IF proxy_client = "None"
    THEN [raised |-> FALSE, value |-> UnavailableMsg]
    ELSE IF outcome.ok
         THEN [raised |-> FALSE, value |-> <<outcome.text>>]
         ELSE [raised |-> TRUE, value |-> <<>>]

ask_llm_simple(prompt, proxy_client, outcome) ==
    IF proxy_client = "None"
    THEN [raised |-> FALSE, value |-> UnavailableMsg]
    ELSE IF outcome.ok
         THEN [raised |-> FALSE, value |-> <<outcome.text>>]
         ELSE [raised |-> FALSE, value |-> <<"Error querying LLM: ", outcome.text>>]

\* Whether ask_llm_simple reaches llm.invoke.
RemoteCalled(proxy_client) == proxy_client # "None"

(* -------------------------------- main ---------------------------------- *)

\* What a file uploader holds: nothing, a file read_excel cannot read, or a
\* workbook that reads as df.
NoFile == [kind |-> "none", df |-> <<>>]

Corrupt == [kind |-> "corrupt", df |-> <<>>]

Workbook(df) == [kind |-> "workbook", df |-> df]

Row(matnr, kwmeng) == [MATNR |-> matnr, KWMENG |-> kwmeng]

\* The spreadsheets a user of the modelled session can upload.
Files == {Corrupt,
          Workbook(<<Row(StrCell(<<"M", "1">>), IntCell(10))>>),
          Workbook(<<Row(NaN, NaN), Row(IntCell(10), StrCell(<<"M", "1">>))>>)}

\* The material codes and questions typed in the modelled session.
MaterialCodes == TokensUpTo(1)

Queries == {<<>>, <<"q">>}

AnalysisTypes == {"Material Analysis", "General Query"}

\* "if 'sales_df' not in st.session_state: st.session_state.sales_df = None"
\* for the three keys.
InitSessionStateAlways(ss) == [r \in Roles |-> None]

InitSessionState(ss) ==
    [r \in Roles |-> IF r \in DOMAIN ss THEN ss[r] ELSE None]

\* One uploader block: try: slot = pd.read_excel(file) ... except: st.error.
LoadSlotClearsOnError(cur, file, r) ==
    CASE file.kind = "none" -> [slot |-> cur, msgs |-> {}]
      [] file.kind = "corrupt" ->
            [slot |-> None, msgs |-> {<<"Error loading file", r>>}]
      [] file.kind = "workbook" ->
            [slot |-> Some(file.df), msgs |-> {<<"file loaded successfully!", r>>}]

LoadSlot(cur, file, r) ==
    CASE file.kind = "none" -> [slot |-> cur, msgs |-> {}]
      [] file.kind = "corrupt" ->
            [slot |-> cur, msgs |-> {<<"Error loading file", r>>}]
      [] file.kind = "workbook" ->
            [slot |-> Some(file.df), msgs |-> {<<"file loaded successfully!", r>>}]

\* all([sales_df is not None, production_df is not None, reservations_df is not None])
\* of the summary of the loading tab.
AllLoaded(ss) == \A r \in Roles : ~ss[r].isNone

\* The gate of the analysis tab: "if not all([...]): st.warning(...); return".
AnalysisGateOpenIfAny(ss) == \E r \in Roles : ~ss[r].isNone

AnalysisGateOpen(ss) == \A r \in Roles : ~ss[r].isNone

GateWarning == <<"Please load all three Excel files in the 'Data Loading' tab before using the analysis features.">>

\* What one run of the script leaves on the page and on the wire.
NoRun == [messages |-> {}, rendered |-> {}, calls |-> <<>>,
          analysis_data |-> <<>>, prompt |-> <<>>, llm |-> NoCall,
          ai_response |-> <<>>, uncaught |-> "none"]

\* if st.button("Analyze Material"): the material branch of tab2.
MaterialBranch(base, ss, pressed, material_code, proxy_client, outcome) ==
    LET shown == [base EXCEPT !.rendered = @ \cup {"Analyze Material"}]
    IN  IF ~pressed THEN shown
        ELSE IF material_code = <<>>
        THEN [shown EXCEPT !.messages =
                  @ \cup {<<"Please enter a material code to analyze.">>}]
        ELSE LET data == analyze_material_data(material_code, ss)
             IN  IF data.raised
                 THEN [shown EXCEPT !.calls = <<"filter">>,
                                    !.uncaught = "re.error"]
                 ELSE LET prompt == create_analysis_prompt(
                                        material_code, data.value, ss)
                          reply == ask_llm_simple(prompt, proxy_client, outcome)
                          called == [shown EXCEPT
                              !.analysis_data = data.value,
                              !.prompt = prompt,
                              !.llm = IF RemoteCalled(proxy_client)
                                      THEN outcome ELSE NoCall]
                      IN  IF reply.raised
                          THEN [called EXCEPT
                                  !.calls = <<"filter", "compose", "client">>,
                                  !.uncaught = "llm error"]
                          ELSE [called EXCEPT
                                  !.calls = <<"filter", "compose", "client",
                                              "present">>,
                                  !.ai_response = reply.value]

\* if st.button("Ask AI"): the general-query branch of tab2.
GeneralBranch(base, ss, pressed, user_query, proxy_client, outcome) ==
    LET shown == [base EXCEPT !.rendered = @ \cup {"Ask AI"}]
    IN  IF ~pressed THEN shown
        ELSE IF user_query = <<>>
        THEN [shown EXCEPT !.messages =
                  @ \cup {<<"Please enter a question to analyze.">>}]
        ELSE LET prompt == general_prompt(user_query, ss)
                 reply == ask_llm_simple(prompt, proxy_client, outcome)
                 called == [shown EXCEPT
                     !.prompt = prompt,
                     !.llm = IF RemoteCalled(proxy_client)
                             THEN outcome ELSE NoCall]
             IN  IF reply.raised
                 THEN [called EXCEPT !.calls = <<"compose", "client">>,
                                     !.uncaught = "llm error"]
                 ELSE [called EXCEPT
                         !.calls = <<"compose", "client", "present">>,
                         !.ai_response = reply.value]

\* One execution of main(): ss is st.session_state before it, files what
\* the three uploaders hold, analysis_type the selectbox, button the button
\* the user pressed ("none" when the run has another cause) and text what
\* the text field of that button holds.
main(ss, files, analysis_type, button, text, proxy_client, outcome) ==
    LET ss0 == InitSessionState(ss)
        loads == [r \in Roles |-> LoadSlot(ss0[r], files[r], r)]
        ss1 == [r \in Roles |-> loads[r].slot]
        tab1 == [NoRun EXCEPT !.messages =
                    UNION {loads[r].msgs : r \in Roles}
                    \cup (IF AllLoaded(ss1)
                          THEN {<<"All three DataFrames have been created successfully!">>}
                          ELSE {})]
        page ==
            IF ~AnalysisGateOpen(ss1)
            THEN [tab1 EXCEPT !.messages = @ \cup {GateWarning}]
            ELSE IF analysis_type = "Material Analysis"
            THEN MaterialBranch(tab1, ss1, button = "Analyze Material",
                                text, proxy_client, outcome)
            ELSE GeneralBranch(tab1, ss1, button = "Ask AI",
                               text, proxy_client, outcome)
    IN [session_state |-> ss1, run |-> page]

(* ----------------------------- variables -------------------------------- *)

VARIABLES
    session_state,  \* st.session_state: the three table slots
    uploader,       \* the file each of the three uploaders holds
    analysis_type,  \* the selectbox of the analysis tab
    proxy_client,   \* the module-level proxy_client of the last run
    event,          \* the user interaction that caused the last run
    run,            \* what the last run of main() left: messages, calls, ...
    args,           \* direct call: [material_code, dfs] handed to analyze_material_data
    ret             \* direct call: [state, raised, value], state "idle" before the call

vars == <<session_state, uploader, analysis_type, proxy_client, event, run,
          args, ret>>

sessionVars == <<session_state, uploader, analysis_type, proxy_client, event, run>>

callVars == <<args, ret>>

(* ----------------------------- the session ------------------------------ *)

Event(kind, role, text) == [kind |-> kind, role |-> role, text |-> text]

\* The effect of one run of the script on the variables.
Rerun(files, type, button, text, ev) ==
    \E pc \in ProxyClients :
    \E outcome \in LlmOutcomes :
        LET m == main(session_state, files, type, button, text, pc, outcome)
        IN  /\ session_state' = m.session_state
            /\ run' = m.run
            /\ uploader' = files
            /\ analysis_type' = type
            /\ proxy_client' = pc
            /\ event' = ev
            /\ UNCHANGED callVars

\* The session opens: the script runs once on an empty session state.
Init ==
    /\ \E pc \in ProxyClients :
          LET files == [r \in Roles |-> NoFile]
              m == main(<<>>, files, "Material Analysis", "none", <<>>, pc, NoCall)
          IN  /\ session_state = m.session_state
              /\ run = m.run
              /\ uploader = files
              /\ proxy_client = pc
    /\ analysis_type = "Material Analysis"
    /\ event = Event("open", "-", <<>>)
    /\ args = [material_code |-> <<>>, dfs |-> [r \in Roles |-> None]]
    /\ ret = [state |-> "unused", raised |-> FALSE, value |-> <<>>]

\* The user puts file f into the uploader of role r.
UploadFile(r, f) ==
    /\ uploader[r] # f
    /\ Rerun([uploader EXCEPT ![r] = f], analysis_type, "none", <<>>,
             Event("upload", r, <<>>))

\* The user takes the file out of the uploader of role r.
RemoveFile(r) ==
    /\ uploader[r] # NoFile
    /\ Rerun([uploader EXCEPT ![r] = NoFile], analysis_type, "none", <<>>,
             Event("remove", r, <<>>))

\* The user changes the selectbox, which is on the page once the gate of
\* the analysis tab has passed.
SelectAnalysisType(t) ==
    /\ run.rendered # {}
    /\ t # analysis_type
    /\ Rerun(uploader, t, "none", <<>>, Event("select", "-", <<>>))

\* The user enters a material code and presses "Analyze Material".
PressAnalyzeMaterial(code) ==
    /\ "Analyze Material" \in run.rendered
    /\ Rerun(uploader, analysis_type, "Analyze Material", code,
             Event("Analyze Material", "-", code))

\* The user enters a question and presses "Ask AI".
PressAskAI(query) ==
    /\ "Ask AI" \in run.rendered
    /\ Rerun(uploader, analysis_type, "Ask AI", query,
             Event("Ask AI", "-", query))

Next ==
    \/ \E r \in Roles : \E f \in Files : UploadFile(r, f)
    \/ \E r \in Roles : RemoveFile(r)
    \/ \E t \in AnalysisTypes : SelectAnalysisType(t)
    \/ \E code \in MaterialCodes : PressAnalyzeMaterial(code)
    \/ \E query \in Queries : PressAskAI(query)

Spec == Init /\ [][Next]_vars

(* --------------- direct calls of analyze_material_data ------------------ *)

\* The tables with exactly k rows.
TablesOfLen(k) == [1..k -> RowValues]

\* Every token up to MaxTokenLen, and every choice of three tables, each
\* absent or present, with at most MaxRows rows in total.
FilterInit ==
    /\ \E t \in Tokens :
       \E k \in [Roles -> 0..MaxRows] :
       \E present \in SUBSET Roles :
          /\ k["sales"] + k["production"] + k["reservations"] <= MaxRows
          /\ \A r \in Roles : r \notin present => k[r] = 0
          /\ \E ts \in TablesOfLen(k["sales"]) :
             \E tp \in TablesOfLen(k["production"]) :
             \E tr \in TablesOfLen(k["reservations"]) :
                LET tab == [sales |-> ts, production |-> tp, reservations |-> tr]
                IN args = [material_code |-> t,
                           dfs |-> [r \in Roles |->
                                      IF r \in present THEN Some(tab[r]) ELSE None]]
    /\ ret = [state |-> "idle", raised |-> FALSE, value |-> <<>>]
    /\ session_state = [r \in Roles |-> None]
    /\ uploader = [r \in Roles |-> NoFile]
    /\ analysis_type = "Material Analysis"
    /\ proxy_client = "None"
    /\ event = Event("call", "-", <<>>)
    /\ run = NoRun

CallAnalyze ==
    /\ ret.state = "idle"
    /\ LET out == analyze_material_data(args.material_code, args.dfs)
       IN ret' = [state |-> "done", raised |-> out.raised, value |-> out.value]
    /\ UNCHANGED <<args, sessionVars>>

FilterNext == CallAnalyze

SpecFilter == FilterInit /\ [][FilterNext]_vars

(* ------------- claims about analyze_material_data (SpecFilter) ---------- *)

Returned == ret.state = "done" /\ ~ret.raised

Provided == {r \in Roles : ~args.dfs[r].isNone}

\* t occurs in s as a literal substring, compared without case.
LiteralContains(s, t) ==
    \E off \in 0..Len(s) :
        /\ off + Len(t) <= Len(s)
        /\ \A j \in 1..Len(t) : Lower(t[j]) = Lower(s[off + j])

LiteralRowMatches(row, t) ==
    \E c \in Columns : LiteralContains(AsTypeStr(row[c]), t)

\* C1: a row of a provided table is in the returned rows list if and only
\* if one of its columns' stringified values contains the token as a
\* literal, case-insensitive substring.
C1_RowsAreLiteralMatches ==
    Returned =>
        \A r \in Provided :
            \A i \in 1..Len(args.dfs[r].df) :
                LET row == args.dfs[r].df[i]
                IN row \in Range(ret.value[r].data)
                       <=> LiteralRowMatches(row, args.material_code)

\* A token without regular-expression metacharacters: on these the regex
\* search and the literal search agree.
IsPlainToken(t) == \A j \in DOMAIN t : t[j] \notin {".", "("}

\* C3: with a non-empty token, every returned row has a cell that is not
\* null and whose stringified value contains the token; a row of null cells
\* only is never returned.  Stated for the tokens without metacharacters,
\* where a match cannot come from the pattern syntax.
C3_NullCellNeverMatches ==
    (Returned /\ args.material_code # <<>> /\ IsPlainToken(args.material_code)) =>
        \A r \in Provided :
            \A row \in Range(ret.value[r].data) :
                \E c \in Columns :
                    /\ row[c].kind # "nan"
                    /\ StrContains(AsTypeStr(row[c]), args.material_code)

HasNonNullCell(row) == \E c \in Columns : row[c].kind # "nan"

\* C9: with the empty token the rows returned for a table are exactly its
\* rows that hold at least one non-null cell.
C9_EmptyTokenNonNullRows ==
    (Returned /\ args.material_code = <<>>) =>
        \A r \in Provided :
            ret.value[r].data = SelectSeq(args.dfs[r].df, HasNonNullCell)

\* C8: the result has an entry for exactly the provided tables, and every
\* entry's count is the length of its rows list.
C8_CountIsLenAndEntriesAreProvided ==
    Returned =>
        /\ DOMAIN ret.value = Provided
        /\ \A r \in DOMAIN ret.value :
               ret.value[r].count = Len(ret.value[r].data)

\* A call with an absent table, a table none of whose rows matches and a
\* table with a matching and a non-matching row.
C8_Witness ==
    /\ Returned
    /\ Provided # Roles
    /\ \E r \in Provided :
          /\ Len(args.dfs[r].df) = 2
          /\ ret.value[r].count = 1
    /\ \E r \in Provided : ret.value[r].count = 0

(* ----------------------- claims about the session ----------------------- *)

Buttons == {"Analyze Material", "Ask AI"}

\* The last run was caused by a button press with a non-empty input.
Accepted == event.kind \in Buttons /\ event.text # <<>>

Positions(calls, step) == {i \in DOMAIN calls : calls[i] = step}

\* C2: a material-analysis request with any non-empty token lets no
\* exception out of analyze_material_data into main.
C2_NoExceptionCrossesIntoMain ==
    (event.kind = "Analyze Material" /\ event.text # <<>>) =>
        run.uncaught = "none"

\* C7: an accepted request makes exactly one call of the analysis client,
\* after the prompt was composed (for a material analysis after the filter
\* and then the composer) and before the result is presented.
C7_OneClientCallPerRequest ==
    Accepted =>
        /\ Cardinality(Positions(run.calls, "client")) = 1
        /\ \A c \in Positions(run.calls, "client") :
              /\ \E k \in Positions(run.calls, "compose") : k < c
              /\ \E q \in Positions(run.calls, "present") : c < q
              /\ \A q \in Positions(run.calls, "present") : c < q
        /\ event.kind = "Analyze Material" =>
              \E f \in Positions(run.calls, "filter") :
                  \A k \in Positions(run.calls, "compose") : f < k

ClientCalled == "client" \in Range(run.calls)

\* C4: a call of ask_llm_simple never raises and returns the fixed
\* unavailable message without a client, a text embedding the error
\* description when the model call fails, and the reply itself otherwise.
C4_AskLlmNeverRaises ==
    ClientCalled =>
        /\ run.uncaught = "none"
        /\ proxy_client = "None" =>
              run.ai_response = UnavailableMsg /\ run.llm = NoCall
        /\ proxy_client # "None" =>
              /\ run.llm \in LlmOutcomes
              /\ run.llm.ok => run.ai_response = <<run.llm.text>>
              /\ ~run.llm.ok =>
                    /\ run.llm.text \in Range(run.ai_response)
                    /\ Len(run.ai_response) > 1

\* The model call of a general query failed and its error text came back.
C4_Witness ==
    /\ event.kind = "Ask AI"
    /\ ClientCalled
    /\ proxy_client = "client"
    /\ run.llm \in LlmOutcomes /\ ~run.llm.ok
    /\ run.ai_response = <<"Error querying LLM: ", "timeout">>

SomeSlotUnset == \E r \in Roles : session_state[r].isNone

EmptyInputPressed == event.kind \in Buttons /\ event.text = <<>>

\* C5: with a table slot unset, or with an empty material code or question
\* submitted, the run calls neither the filter nor the composer nor the
\* analysis client, and a message tells the user what is missing.
C5_MissingPreconditionRejected ==
    (SomeSlotUnset \/ EmptyInputPressed) =>
        /\ run.calls = <<>>
        /\ run.analysis_data = <<>>
        /\ run.prompt = <<>>
        /\ run.llm = NoCall
        /\ run.ai_response = <<>>
        /\ SomeSlotUnset => GateWarning \in run.messages
        /\ (event.kind = "Analyze Material" /\ event.text = <<>>) =>
              <<"Please enter a material code to analyze.">> \in run.messages
        /\ (event.kind = "Ask AI" /\ event.text = <<>>) =>
              <<"Please enter a question to analyze.">> \in run.messages

\* "Analyze Material" pressed with an empty material code, all tables loaded.
C5_Witness ==
    /\ event.kind = "Analyze Material"
    /\ event.text = <<>>
    /\ ~SomeSlotUnset
    /\ <<"Please enter a material code to analyze.">> \in run.messages

\* C6: a slot changes only in a run caused by an upload for its own role
\* of a readable file, and then to that file's table; so a failed load
\* leaves every slot as it was, and no other action changes a slot.
C6_LoadChangesOnlyItsOwnSlot ==
    [][\A r \in Roles :
          session_state'[r] # session_state[r] =>
              /\ event'.kind = "upload"
              /\ event'.role = r
              /\ uploader'[r].kind = "workbook"
              /\ session_state'[r] = Some(uploader'[r].df)]_vars

\* A failed load of a role whose slot still holds the earlier table, while
\* the other two slots are set too.
C6_Witness ==
    /\ event.kind = "upload"
    /\ uploader[event.role] = Corrupt
    /\ \A r \in Roles : ~session_state[r].isNone
    /\ <<"Error loading file", event.role>> \in run.messages

\* C10: a slot that holds a table still holds one after every run, and
\* once all three are set the gate of the analysis tab does not fire again.
C10_SetSlotStaysSet ==
    [][/\ \A r \in Roles :
             ~session_state[r].isNone => ~session_state'[r].isNone
       /\ ~SomeSlotUnset => GateWarning \notin run'.messages]_vars

\* All three slots set although no uploader holds a readable file any more.
C10_Witness ==
    /\ ~SomeSlotUnset
    /\ event.kind = "remove"
    /\ \A r \in Roles : uploader[r].kind # "workbook"
    /\ \E r \in Roles : uploader[r] = Corrupt
    /\ GateWarning \notin run.messages

====
